---- MODULE Spec2Model ----
(***************************************************************************)
(* A model of the authored behaviour of the React + TypeScript + Nitro     *)
(* starter: the two Nitro/H3 API handlers (routes/api), the documented     *)
(* health check, and the page tree with its Home click counter.            *)
(*                                                                         *)
(* JavaScript values are records tagged by "kind"; a string is a TLA+      *)
(* string; the value undefined of a route parameter is the marker          *)
(* Undefined.                                                              *)
(***************************************************************************)
EXTENDS Integers, Sequences, FiniteSets, TLC

VARIABLES
    userReqs,     \* /api/users/:id : request slot -> [pc, param, response]
    helloReqs,    \* /api/hello     : request slot -> [pc, method, ctxUser, ctxAfter, outcome]
    hrtime,       \* the monotonic clock process.uptime() reads
    procStart,    \* the monotonic clock's value when the server process started
    wallClock,    \* the wall clock new Date() reads; it may be set backwards
    healthLog,    \* the health check's responses of this process, in call order
    app,          \* which App is built: "router" (explicit <Routes>) or "pages" (~react-pages)
    tabs,         \* browser tab -> [path, component, params, hooks, shown, clicks, from]
    scanFiles,    \* tutorial router: the route files in the order glob found them
    routeTable,   \* tutorial router: what scanRoutes returned for them
    matchRes,     \* tutorial router: the last matchRoute call, [path, route]
    middlewares,  \* composeMiddleware: the chain, position -> shape of handler body
    index,        \* composeMiddleware: the invocation's `index`
    handlers,     \* composeMiddleware: position -> [pc, starts, calls, error]
    composed,     \* composeMiddleware: the promise of the composed call, "none" before it
    cache,        \* withCache: key -> the entry { data, expires } (and when, with which ttl, it was set)
    dateNow,      \* withCache: Date.now(), in ms
    database,     \* the version of the data the database holds
    updatePc,     \* updateData: "idle", or "written" between the update and clearCache
    cleared,      \* the database version at the last clearCache of updateData
    cacheCalls,   \* withCache: call slot -> [pc, key, ttl, data, hit, fresh, cleared]
    limiters,     \* rate limiter: the options of the limiters created, in order
    requests,     \* rate limiter: the module's map, key -> times of the requests let through
    rateNow,      \* rate limiter: Date.now(), in ms
    rateLog,      \* rate limiter: the requests handled, [limiter, header, at, outcome]
    executes,     \* useServerFn: execute call -> "idle", "inflight", "resolved" or "rejected"
    loading,      \* useServerFn: the loading state
    hookData,     \* useServerFn: the data state
    hookError,    \* useServerFn: the error state
    functionCounter, \* createServerFn: process -> its functionCounter
    serverFns,    \* createServerFn: process -> the server functions created in it, [id, impl, method]
    serverFunctions, \* the handler's map, $id -> $serverImpl
    rpc,          \* call of a client function -> [pc, fn, impl, arg, executed, execArg, response, outcome]
    todos,        \* todo store: the list `todos`, [id, text, completed]
    nextId,       \* todo store: `nextId`
    assigned,     \* todo store: the ids given to todos so far, in order
    todoRegistered, \* the todo functions registered with the handler
    todoLast,     \* the last call of a todo function, [fn, outcome]
    loaderData,   \* SSR: the module's Map loaderData, route path -> data
    renders,      \* SSR: render call -> [pc, url, data]
    logNow,       \* request logger: what new Date() gives, [hours, minutes]; none before the start
    logged        \* request logger: the time of the last line logged

usersVars == <<userReqs>>
helloVars == <<helloReqs>>
healthVars == <<hrtime, procStart, wallClock, healthLog>>
pageVars == <<app, tabs>>
scanVars == <<scanFiles, routeTable, matchRes>>
mwVars == <<middlewares, index, handlers, composed>>
cacheVars == <<cache, dateNow, database, updatePc, cleared, cacheCalls>>
rateVars == <<limiters, requests, rateNow, rateLog>>
hookVars == <<executes, loading, hookData, hookError>>
fnVars == <<functionCounter, serverFns, serverFunctions, rpc>>
todoVars == <<todos, nextId, assigned, todoRegistered, todoLast>>
ssrVars == <<loaderData, renders>>
logVars == <<logNow, logged>>
\* the state of the starter itself, and of the tutorials' framework code
progVars == <<usersVars, helloVars, healthVars, pageVars>>
docVars == <<scanVars, mwVars, cacheVars, rateVars, hookVars, fnVars, todoVars, ssrVars, logVars>>
vars == <<progVars, docVars>>
\* everything but one part of the framework code
exceptScan == <<progVars, mwVars, cacheVars, rateVars, hookVars, fnVars, todoVars, ssrVars, logVars>>
exceptMw == <<progVars, scanVars, cacheVars, rateVars, hookVars, fnVars, todoVars, ssrVars, logVars>>
exceptCache == <<progVars, scanVars, mwVars, rateVars, hookVars, fnVars, todoVars, ssrVars, logVars>>
exceptRate == <<progVars, scanVars, mwVars, cacheVars, hookVars, fnVars, todoVars, ssrVars, logVars>>
exceptHook == <<progVars, scanVars, mwVars, cacheVars, rateVars, fnVars, todoVars, ssrVars, logVars>>
exceptFn == <<progVars, scanVars, mwVars, cacheVars, rateVars, hookVars, todoVars, ssrVars, logVars>>
exceptTodo == <<progVars, scanVars, mwVars, cacheVars, rateVars, hookVars, fnVars, ssrVars, logVars>>
exceptSsr == <<progVars, scanVars, mwVars, cacheVars, rateVars, hookVars, fnVars, todoVars, logVars>>
exceptLog == <<progVars, scanVars, mwVars, cacheVars, rateVars, hookVars, fnVars, todoVars, ssrVars>>

\* ------------------------------------------------------------------ bounds

\* concurrent requests to /api/users/:id
MaxUserReqs == 2
\* concurrent requests to /api/hello
MaxHelloReqs == 2

UserSlots == 1..MaxUserReqs
HelloSlots == 1..MaxHelloReqs

\* ------------------------------------------------------- JavaScript values

\* getRouterParam(event, "id") of a request whose route has no id parameter.
Undefined == "<undefined>"

JsUndefined == [kind |-> "undefined"]

\* The route parameters a request may carry: the two keys of the mock map,
\* numerically equal but differently spelled ids, an unknown id, names of
\* properties every object inherits from Object.prototype, the string
\* "undefined", and no parameter at all.
Params == {"1", "2", "3", "01", "1.0", "constructor", "__proto__",
           "toString", "undefined", Undefined}

\* ToPropertyKey: the key a value denotes in obj[value]; undefined becomes
\* the string "undefined", a string is its own key.
ToPropertyKey(v) == IF v = Undefined THEN "undefined" ELSE v

\* Property names an object literal inherits from Object.prototype.
ObjectPrototypeKeys ==
    {"constructor", "__proto__", "toString", "toLocaleString", "valueOf",
     "hasOwnProperty", "isPrototypeOf", "propertyIsEnumerable"}

\* obj[key] of an object literal: an own property, else the property
\* inherited from Object.prototype (a function, or the prototype object
\* itself), else undefined.
Get(obj, key) ==
    IF key \in DOMAIN obj THEN obj[key]
    ELSE IF key \in ObjectPrototypeKeys THEN [kind |-> "builtin", name |-> key]
    ELSE JsUndefined

\* ToBoolean of the values above: only undefined is falsy.
Truthy(v) == v.kind # "undefined"

\* ---------------------------------------------- routes/api/users/[id].ts

\* The mock user data, rebuilt by every call of the handler.
UsersSharedId ==
    ("1" :> [kind |-> "object", id |-> 1, name |-> "John Doe", email |-> "john@example.com"])
    @@ ("2" :> [kind |-> "object", id |-> 1, name |-> "Jane Smith", email |-> "jane@example.com"])
Users ==
    ("1" :> [kind |-> "object", id |-> 1, name |-> "John Doe", email |-> "john@example.com"])
    @@ ("2" :> [kind |-> "object", id |-> 2, name |-> "Jane Smith", email |-> "jane@example.com"])

NotFoundResponse == [statusCode |-> 404, statusMessage |-> "User not found"]

\* The handler body: what it returns for the value of getRouterParam.
UsersHandler(id) ==
    LET users == Users
        user == Get(users, ToPropertyKey(id))
    IN  IF ~Truthy(user) THEN NotFoundResponse ELSE [user |-> user]

NoResponse == [none |-> TRUE]

\* The id the handler call of slot r works on.
RouterParamShared(r) ==
    LET others == {q \in UserSlots : q # r /\ userReqs[q].pc # "idle"}
    IN  IF others = {} THEN userReqs[r].param
        ELSE userReqs[CHOOSE q \in others : TRUE].param
getRouterParam(r) == userReqs[r].param

\* A request for /api/users/<p> arrives (p = Undefined: no parameter).
UsersArrive(r, p) ==
    /\ userReqs[r].pc = "idle"
    /\ userReqs' = [userReqs EXCEPT ![r] = [pc |-> "pending", param |-> p, response |-> NoResponse]]
    /\ UNCHANGED <<helloVars, healthVars, pageVars, docVars>>

\* The handler runs; it is synchronous, so it runs to its return.
UsersHandle(r) ==
    /\ userReqs[r].pc = "pending"
    /\ userReqs' = [userReqs EXCEPT ![r].pc = "done",
                                    ![r].response = UsersHandler(getRouterParam(r))]
    /\ UNCHANGED <<helloVars, healthVars, pageVars, docVars>>

\* The response has been sent; the slot serves the next request.
UsersSend(r) ==
    /\ userReqs[r].pc = "done"
    /\ userReqs' = [userReqs EXCEPT ![r] = [pc |-> "idle", param |-> Undefined, response |-> NoResponse]]
    /\ UNCHANGED <<helloVars, healthVars, pageVars, docVars>>

NextUsers ==
    \E r \in UserSlots :
        \/ \E p \in Params : UsersArrive(r, p)
        \/ UsersHandle(r)
        \/ UsersSend(r)

\* --------------------------------------------------- routes/api/hello.ts

\* What a middleware may have left in event.context.user: nothing, the
\* README's { name: "John" }, another name, or an object without a name.
ContextUsers ==
    {JsUndefined,
     [kind |-> "object", name |-> "John"],
     [kind |-> "object", name |-> "Jane"],
     [kind |-> "object"]}

Methods == {"GET", "POST"}

\* String(v) of a template literal's substitution.
TemplateString(v) == IF v = Undefined THEN "undefined" ELSE v

\* const { name } = event.context.user: the property, undefined when the
\* object has none.
NameOf(user) == IF "name" \in DOMAIN user THEN user.name ELSE Undefined

\* The handler body. Destructuring undefined throws a TypeError.
HelloHandlerStatic(user) ==
    [kind |-> "return", body |-> [success |-> TRUE, message |-> "Hello from API!"]]
HelloHandler(user) ==
    IF user.kind = "undefined"
    THEN [kind |-> "throw", error |-> "TypeError"]
    ELSE [kind |-> "return",
          body |-> [success |-> TRUE, message |-> "Hello " \o TemplateString(NameOf(user))]]

NoOutcome == [kind |-> "none"]

HelloArrive(r, m, u) ==
    /\ helloReqs[r].pc = "idle"
    /\ helloReqs' = [helloReqs EXCEPT ![r] =
           [pc |-> "pending", method |-> m, ctxUser |-> u, ctxAfter |-> u, outcome |-> NoOutcome]]
    /\ UNCHANGED <<usersVars, healthVars, pageVars, docVars>>

\* The handler runs; it reads event.context.user and leaves it alone.
HelloHandle(r) ==
    /\ helloReqs[r].pc = "pending"
    /\ helloReqs' = [helloReqs EXCEPT ![r].pc = "done",
                                      ![r].outcome = HelloHandler(helloReqs[r].ctxUser)]
    /\ UNCHANGED <<usersVars, healthVars, pageVars, docVars>>

HelloSend(r) ==
    /\ helloReqs[r].pc = "done"
    /\ helloReqs' = [helloReqs EXCEPT ![r] =
           [pc |-> "idle", method |-> "GET", ctxUser |-> JsUndefined,
            ctxAfter |-> JsUndefined, outcome |-> NoOutcome]]
    /\ UNCHANGED <<usersVars, healthVars, pageVars, docVars>>

NextHello ==
    \E r \in HelloSlots :
        \/ \E m \in Methods, u \in ContextUsers : HelloArrive(r, m, u)
        \/ HelloHandle(r)
        \/ HelloSend(r)

\* ---------------------------- docs/tutorial/09-Deployment.md: healthCheck

\* the monotonic clock runs from 0 to MaxTime
MaxTime == 4
\* the wall clock takes the values 0..MaxWall
MaxWall == 2
\* health checks recorded per process
MaxHealthCalls == 3

\* process.uptime(): the time on the monotonic clock since the process started.
UptimeByWallClock == wallClock - procStart
ProcessUptime == hrtime - procStart

\* new Date().toISOString(): the wall-clock instant; the ISO text names the
\* instant one to one, so the instant stands for it.
Timestamp == wallClock

\* The health check's body.
HealthResponse == [status |-> "ok", timestamp |-> Timestamp, uptime |-> ProcessUptime]

\* Time passes.
Tick ==
    /\ hrtime < MaxTime
    /\ hrtime' = hrtime + 1
    /\ UNCHANGED <<procStart, wallClock, healthLog, usersVars, helloVars, pageVars, docVars>>

\* The wall clock is set (by NTP or by hand), forwards or backwards.
SetWallClock(w) ==
    /\ w # wallClock
    /\ wallClock' = w
    /\ UNCHANGED <<hrtime, procStart, healthLog, usersVars, helloVars, pageVars, docVars>>

\* GET /health.
HealthCheck ==
    /\ Len(healthLog) < MaxHealthCalls
    /\ healthLog' = Append(healthLog, HealthResponse)
    /\ UNCHANGED <<hrtime, procStart, wallClock, usersVars, helloVars, pageVars, docVars>>

\* The server process is restarted: a new process lifetime begins.
Restart ==
    /\ procStart' = hrtime
    /\ healthLog' = <<>>
    /\ UNCHANGED <<hrtime, wallClock, usersVars, helloVars, pageVars, docVars>>

NextHealth ==
    \/ Tick
    \/ \E w \in 0..MaxWall : SetWallClock(w)
    \/ HealthCheck
    \/ Restart

\* ------------------------------------------------ src/pages: the page tree

\* segments of a URL path typed into the address bar
MaxPathLen == 2
\* clicks on Increase handled by one Home instance
MaxClicks == 3

Tabs == {"a", "b"}    \* two browser tabs, each running its own copy of the app

\* A URL path is the sequence of its segments: <<>> is /, <<"users", "123">>
\* is /users/123. Segments are compared as the router compares them, so a
\* segment stands for all its spellings that the router treats alike.
Segs == {"about", "users", "profile", "123"}
Paths == UNION {[1..n -> Segs] : n \in 0..MaxPathLen}

\* The segments of a route pattern.
Static(n) == [kind |-> "static", name |-> n]
Param(n) == [kind |-> "param", name |-> n]
Splat == [kind |-> "splat", name |-> "*"]

\* The routes vite-plugin-pages generates from src/pages, in file order.
PagesRoutes ==
    << [pattern |-> <<>>, index |-> TRUE, component |-> "Home"],
       [pattern |-> <<Static("about")>>, index |-> FALSE, component |-> "About"],
       [pattern |-> <<Static("users")>>, index |-> TRUE, component |-> "Users"],
       [pattern |-> <<Static("users"), Param("id")>>, index |-> FALSE, component |-> "UserDetail"],
       [pattern |-> <<Static("users"), Static("profile")>>, index |-> FALSE, component |-> "UserProfile"],
       [pattern |-> <<Splat>>, index |-> FALSE, component |-> "NotFound"] >>

\* The routes App declares by hand in <Routes>.
RouterRoutes ==
    << [pattern |-> <<>>, index |-> FALSE, component |-> "Home"],
       [pattern |-> <<Splat>>, index |-> FALSE, component |-> "NotFound"] >>

Apps == {"router", "pages"}
RoutesOf(a) == IF a = "pages" THEN PagesRoutes ELSE RouterRoutes

IsSplat(pattern) == Len(pattern) > 0 /\ pattern[Len(pattern)].kind = "splat"

\* One pattern segment against one path segment.
SegMatchesLiteral(ps, seg) == ps.kind = "static" /\ ps.name = seg
SegMatches(ps, seg) ==
    \/ ps.kind = "param"
    \/ ps.kind = "static" /\ ps.name = seg

\* A pattern against a whole path: segment by segment; a trailing splat
\* takes the rest of the path, which may be empty.
MatchesNonEmpty(pattern, path) ==
    IF IsSplat(pattern)
    THEN /\ Len(path) >= Len(pattern) - 1
         /\ \A i \in 1..(Len(pattern) - 1) : SegMatches(pattern[i], path[i])
    ELSE /\ path # <<>>
         /\ Len(path) = Len(pattern)
         /\ \A i \in 1..Len(pattern) : SegMatches(pattern[i], path[i])
Matches(pattern, path) ==
    IF IsSplat(pattern)
    THEN /\ Len(path) >= Len(pattern) - 1
         /\ \A i \in 1..(Len(pattern) - 1) : SegMatches(pattern[i], path[i])
    ELSE /\ Len(path) = Len(pattern)
         /\ \A i \in 1..Len(pattern) : SegMatches(pattern[i], path[i])

\* The router ranks the routes: a static segment counts 10, a dynamic one 3,
\* a splat is a penalty of 2.
SegmentValueFlat(ps) ==
    CASE ps.kind = "static" -> 3
      [] ps.kind = "param" -> 3
      [] ps.kind = "splat" -> -2
SegmentValueSplatFirst(ps) ==
    CASE ps.kind = "static" -> 10
      [] ps.kind = "param" -> 3
      [] ps.kind = "splat" -> 100
SegmentValue(ps) ==
    CASE ps.kind = "static" -> 10
      [] ps.kind = "param" -> 3
      [] ps.kind = "splat" -> -2

RECURSIVE SumValues(_)
SumValues(pattern) ==
    IF pattern = <<>> THEN 0
    ELSE SegmentValue(Head(pattern)) + SumValues(Tail(pattern))

\* The score of a route: its number of segments, its segments' values, and
\* 2 more for an index route.
Score(route) ==
    Len(route.pattern) + SumValues(route.pattern) + (IF route.index THEN 2 ELSE 0)

\* The indices of the routes that match a path, and among them the ones
\* ranked first: the highest score, and of equal scores the earlier route.
Matching(routes, path) == {i \in 1..Len(routes) : Matches(routes[i].pattern, path)}
TopScored(routes, path) ==
    {i \in Matching(routes, path) :
        \A j \in Matching(routes, path) : Score(routes[i]) >= Score(routes[j])}

\* The rest of a path as the splat parameter gives it: its segments joined
\* by "/".
RECURSIVE JoinPath(_)
JoinPath(segs) ==
    IF segs = <<>> THEN ""
    ELSE IF Len(segs) = 1 THEN Head(segs)
    ELSE Head(segs) \o "/" \o JoinPath(Tail(segs))

\* The parameters of a match: each dynamic segment's name with the path
\* segment in its place, and "*" with what a splat took.
ParamsOf(pattern, path) ==
    LET named == {k \in 1..Len(pattern) : pattern[k].kind # "static"}
    IN  [n \in {pattern[k].name : k \in named} |->
            LET k == CHOOSE i \in named : pattern[i].name = n
            IN  IF pattern[k].kind = "param" THEN path[k]
                ELSE JoinPath(SubSeq(path, k, Len(path)))]

\* const { id } = useParams(): undefined when the match has no such parameter.
useParams(params, name) == IF name \in DOMAIN params THEN params[name] ELSE Undefined

\* useRoutes(routes) at a location: the element of the first-ranked match,
\* nothing when no route matches.
Resolve(routes, path) ==
    IF Matching(routes, path) = {}
    THEN [component |-> "nothing", params |-> <<>>]
    ELSE LET i == CHOOSE k \in TopScored(routes, path) :
                      \A j \in TopScored(routes, path) : k <= j
         IN  [component |-> routes[i].component,
              params |-> ParamsOf(routes[i].pattern, path)]

\* The <Link to=...> targets of a page, per App.
Links(a, component) ==
    IF a = "router" THEN {}
    ELSE CASE component = "Home" ->
                {<<"about">>, <<"users">>, <<"users", "profile">>, <<"users", "123">>}
           [] component = "About" -> {<<>>}
           [] component = "Users" ->
                {<<"users", "1">>, <<"users", "2">>, <<"users", "3">>,
                 <<"users", "profile">>, <<>>}
           [] component = "UserDetail" -> {<<"users">>, <<>>}
           [] component = "UserProfile" -> {<<"users">>, <<>>}
           [] OTHER -> {}

\* Every path a tab can be at: the typed ones and the link targets.
LinkTargets ==
    {<<>>, <<"about">>, <<"users">>, <<"users", "profile">>, <<"users", "123">>,
     <<"users", "1">>, <<"users", "2">>, <<"users", "3">>}
Locations == Paths \cup LinkTargets

\* What each App renders at each location (a table, evaluated once).
Rendered ==
    [a \in Apps |-> ([p \in Locations |-> Resolve(RoutesOf(a), p)] @@ <<>>)] @@ <<>>

\* The state cells of a freshly mounted component: Home's useState(0).
InitialHooksKept(t, component) ==
    IF component = "Home"
    THEN (IF tabs[t].component = "Home" THEN tabs[t].hooks ELSE <<0>>)
    ELSE <<>>
InitialHooks(t, component) == IF component = "Home" THEN <<0>> ELSE <<>>

\* The page mounted in tab t at a path: the component the router resolves,
\* its parameters, its fresh state, what the first render shows, the clicks
\* handled so far, and the page whose link led here ("" for a page load).
Mount(t, path, from) ==
    LET m == Rendered[app][path]
    IN  [path |-> path, component |-> m.component, params |-> m.params,
         hooks |-> InitialHooks(t, m.component),
         shown |-> InitialHooks(t, m.component),
         clicks |-> 0, from |-> from]

\* A URL is typed into the address bar of tab t: the app is loaded anew.
OpenUrl(t, p) ==
    /\ tabs' = [tabs EXCEPT ![t] = Mount(t, p, "")]
    /\ UNCHANGED <<app, usersVars, helloVars, healthVars, docVars>>

\* Tab t is reloaded.
Reload(t) ==
    /\ tabs' = [tabs EXCEPT ![t] = Mount(t, tabs[t].path, "")]
    /\ UNCHANGED <<app, usersVars, helloVars, healthVars, docVars>>

\* A link of the page in tab t is followed: the router renders the target's
\* route in place of the current one.
ClickLink(t, target) ==
    /\ target \in Links(app, tabs[t].component)
    /\ tabs' = [tabs EXCEPT ![t] = Mount(t, target, tabs[t].component)]
    /\ UNCHANGED <<app, usersVars, helloVars, healthVars, docVars>>

\* handleIncrement: setCount(count + 1), count being the value the latest
\* render gave the handler.
handleIncrement(t) ==
    /\ tabs[t].component = "Home"
    /\ tabs[t].clicks < MaxClicks
    /\ tabs' = [tabs EXCEPT ![t].hooks = <<tabs[t].shown[1] + 1>>,
                            ![t].clicks = tabs[t].clicks + 1]
    /\ UNCHANGED <<app, usersVars, helloVars, healthVars, docVars>>

\* React renders Home again after a state change: the new count is shown
\* and the handler of this render closes over it.
Render(t) ==
    /\ tabs[t].shown # tabs[t].hooks
    /\ tabs' = [tabs EXCEPT ![t].shown = tabs[t].hooks]
    /\ UNCHANGED <<app, usersVars, helloVars, healthVars, docVars>>

NextPages ==
    \E t \in Tabs :
        \/ \E p \in Paths : OpenUrl(t, p)
        \/ Reload(t)
        \/ \E target \in Links(app, tabs[t].component) : ClickLink(t, target)
        \/ handleIncrement(t)
        \/ Render(t)

\* -------------------- docs/tutorial/05-File-Based-Routing.md: the router

\* files handed to one scanRoutes call
MaxFiles == 3

\* A string of the router is the sequence of its pieces: each punctuation
\* character ("/", "[", "]", ".", ":", "*") is a piece, and so is each run
\* of letters. "users/[id].tsx" is <<"users", "/", "[", "id", "]", ".", "tsx">>.
StartsWith(s, prefix) == Len(s) >= Len(prefix) /\ SubSeq(s, 1, Len(prefix)) = prefix
EndsWith(s, suffix) ==
    Len(s) >= Len(suffix) /\ SubSeq(s, Len(s) - Len(suffix) + 1, Len(s)) = suffix

\* s.slice(1, -1)
SliceInner(s) == SubSeq(s, 2, Len(s) - 1)

\* s.lastIndexOf(piece), 0 when there is none.
LastIndexOf(s, piece) ==
    IF \E i \in 1..Len(s) : s[i] = piece
    THEN CHOOSE i \in 1..Len(s) : s[i] = piece /\ \A j \in (i + 1)..Len(s) : s[j] # piece
    ELSE 0

\* s.split(sep)
RECURSIVE StrSplit(_, _)
StrSplit(s, sep) ==
    IF \E i \in 1..Len(s) : s[i] = sep
    THEN LET i == CHOOSE k \in 1..Len(s) : s[k] = sep /\ \A j \in 1..(k - 1) : s[j] # sep
         IN  <<SubSeq(s, 1, i - 1)>> \o StrSplit(SubSeq(s, i + 1, Len(s)), sep)
    ELSE <<s>>

\* parts.filter(Boolean): the empty strings dropped.
RECURSIVE NonEmpty(_)
NonEmpty(parts) ==
    IF parts = <<>> THEN <<>>
    ELSE IF Head(parts) = <<>> THEN NonEmpty(Tail(parts))
    ELSE <<Head(parts)>> \o NonEmpty(Tail(parts))

\* parts.join(sep)
RECURSIVE StrJoin(_, _)
StrJoin(parts, sep) ==
    IF parts = <<>> THEN <<>>
    ELSE IF Len(parts) = 1 THEN Head(parts)
    ELSE Head(parts) \o <<sep>> \o StrJoin(Tail(parts), sep)

\* path.replace(/\/+/g, "/"): every run of slashes becomes one slash.
KeepSlashes(s) == s
RECURSIVE CollapseSlashes(_)
CollapseSlashes(s) ==
    IF Len(s) <= 1 THEN s
    ELSE IF s[1] = "/" /\ s[2] = "/" THEN CollapseSlashes(Tail(s))
    ELSE <<s[1]>> \o CollapseSlashes(Tail(s))

\* parse(file): the directory (empty for a file at the top) and the file
\* name without its extension.
ParseFile(file) ==
    LET slash == LastIndexOf(file, "/")
        base == SubSeq(file, slash + 1, Len(file))
        dot == LastIndexOf(base, ".")
    IN  [dir |-> SubSeq(file, 1, slash - 1),
         name |-> IF dot > 1 THEN SubSeq(base, 1, dot - 1) ELSE base]

\* The route files scanRoutes may find: the documented page tree, a
\* catch-all file in a directory and at the top, a catch-all directory and
\* a dynamic directory.
RouteFiles ==
    { <<"index", ".", "tsx">>,
      <<"about", ".", "tsx">>,
      <<"users", "/", "index", ".", "tsx">>,
      <<"users", "/", "[", "id", "]", ".", "tsx">>,
      <<"users", "/", "profile", ".", "tsx">>,
      <<"docs", "/", "[", ".", ".", ".", "slug", "]", ".", "tsx">>,
      <<"[", ".", ".", ".", "all", "]", ".", "tsx">>,
      <<"[", ".", ".", ".", "slug", "]", "/", "index", ".", "tsx">>,
      <<"[", "id", "]", "/", "edit", ".", "tsx">> }

\* The map over the directory segments: [id] -> :id, [...slug] -> *, tested
\* in this order.
SegmentToPattern(seg) ==
    IF StartsWith(seg, <<"[">>) /\ EndsWith(seg, <<"]">>)
    THEN <<":">> \o SliceInner(seg)
    ELSE IF StartsWith(seg, <<"[", ".", ".", ".">>) /\ EndsWith(seg, <<"]">>)
    THEN <<"*">>
    ELSE seg

RECURSIVE MapSegments(_)
MapSegments(segs) ==
    IF segs = <<>> THEN <<>>
    ELSE <<SegmentToPattern(Head(segs))>> \o MapSegments(Tail(segs))

\* What the file name adds to the path, the tests again in the code's order.
FilenameToPattern(filename) ==
    IF filename = <<"index">> THEN <<>>
    ELSE IF StartsWith(filename, <<"[">>) /\ EndsWith(filename, <<"]">>)
    THEN <<"/", ":">> \o SliceInner(filename)
    ELSE IF StartsWith(filename, <<"[", ".", ".", ".">>) /\ EndsWith(filename, <<"]">>)
    THEN <<"/", "*">>
    ELSE <<"/">> \o filename

fileToRoute(file) ==
    LET parsed == ParseFile(file)
        segments == IF parsed.dir # <<>> THEN StrSplit(parsed.dir, "/") ELSE <<>>
        fromDir == IF Len(segments) > 0
                   THEN <<"/">> \o StrJoin(MapSegments(segments), "/")
                   ELSE <<"/">>
    IN  [path |-> CollapseSlashes(fromDir \o FilenameToPattern(parsed.name)),
         filePath |-> file]

\* a.path.split("/").length
Depth(route) == Len(StrSplit(route.path, "/"))

\* routes.sort((a, b) => bDepth - aDepth): deeper paths first; the sort is
\* stable, so routes of equal depth keep the order they were found in.
RECURSIVE OfDepth(_, _)
OfDepth(routes, d) ==
    IF routes = <<>> THEN <<>>
    ELSE IF Depth(Head(routes)) = d THEN <<Head(routes)>> \o OfDepth(Tail(routes), d)
    ELSE OfDepth(Tail(routes), d)

RECURSIVE DeepestFirst(_, _)
DeepestFirst(routes, d) ==
    IF d = 0 THEN <<>> ELSE OfDepth(routes, d) \o DeepestFirst(routes, d - 1)

buildRouteTree(routes) ==
    IF routes = <<>> THEN <<>>
    ELSE LET deepest == CHOOSE d \in {Depth(routes[i]) : i \in 1..Len(routes)} :
                            \A i \in 1..Len(routes) : Depth(routes[i]) <= d
         IN  DeepestFirst(routes, deepest)

RECURSIVE MapFiles(_)
MapFiles(files) ==
    IF files = <<>> THEN <<>> ELSE <<fileToRoute(Head(files))>> \o MapFiles(Tail(files))

\* extractParams: null when a static pattern segment differs from the path
\* segment in its place; the loop stops at a "*".
RECURSIVE SegmentsAgree(_, _)
SegmentsAgree(patternSegs, pathSegs) ==
    IF patternSegs = <<>> THEN TRUE
    ELSE LET patternSeg == Head(patternSegs)
             pathSeg == IF pathSegs = <<>> THEN <<Undefined>> ELSE Head(pathSegs)
             rest == IF pathSegs = <<>> THEN <<>> ELSE Tail(pathSegs)
         IN  IF StartsWith(patternSeg, <<":">>) THEN SegmentsAgree(Tail(patternSegs), rest)
             ELSE IF patternSeg = <<"*">> THEN TRUE
             ELSE IF patternSeg # pathSeg THEN FALSE
             ELSE SegmentsAgree(Tail(patternSegs), rest)

\* matchPath(pathname, pattern) !== null
PathMatches(pathname, pattern) ==
    LET patternSegments == NonEmpty(StrSplit(pattern, "/"))
        pathSegments == NonEmpty(StrSplit(pathname, "/"))
    IN  IF Len(patternSegments) # Len(pathSegments)
        THEN EndsWith(pattern, <<"/", "*">>) /\ SegmentsAgree(patternSegments, pathSegments)
        ELSE SegmentsAgree(patternSegments, pathSegments)

NoRoute == [path |-> <<>>, filePath |-> <<>>]

\* matchRoute: the first route of the list whose pattern matches, or null.
RECURSIVE matchRoute(_, _)
matchRoute(pathname, routes) ==
    IF routes = <<>> THEN NoRoute
    ELSE IF PathMatches(pathname, Head(routes).path) THEN Head(routes)
    ELSE matchRoute(pathname, Tail(routes))

\* The orders glob may report a set of files in.
FileLists ==
    UNION {{f \in [1..n -> RouteFiles] : \A i, j \in 1..n : i # j => f[i] # f[j]} :
           n \in 1..MaxFiles}

\* The paths asked of matchRoute.
MatchPaths ==
    { <<"/">>, <<"/", "about">>, <<"/", "users">>, <<"/", "users", "/", "profile">>,
      <<"/", "users", "/", "123">>, <<"/", "docs", "/", "a", "/", "b">>, <<"/", "nope">> }

NoMatch == [path |-> <<>>, route |-> NoRoute]

\* scanRoutes at build start: the files are globbed, converted and sorted.
\* (A hot update scans again from scratch, as a new build does.)
ScanRoutes(files) ==
    /\ scanFiles = <<>>
    /\ scanFiles' = files
    /\ routeTable' = buildRouteTree(MapFiles(files))
    /\ matchRes' = NoMatch
    /\ UNCHANGED exceptScan

\* matchRoute(p, routes) on the scanned routes.
MatchRoute(p) ==
    /\ routeTable # <<>>
    /\ matchRes' = [path |-> p, route |-> matchRoute(p, routeTable)]
    /\ UNCHANGED <<scanFiles, routeTable, exceptScan>>

NextScan ==
    \/ \E files \in FileLists : ScanRoutes(files)
    \/ \E p \in MatchPaths : MatchRoute(p)

\* ---------------------------------------------------------- specification

\* --------------------- docs/tutorial/07-CLI-Tool.md: composeMiddleware
\*
\* One invocation of the function composeMiddleware(middlewares) returns.
\* A promise is "pending", "resolved", or rejected with an error message.
\* A handler's own code between two awaits may take any time (it may await
\* I/O of its own), so suspended handlers resume in any order; a call of
\* next() itself, dispatch(i + 1) up to its await, is synchronous.

\* the longest middleware chain composed
MaxMiddlewares == 3

Unauthorized == "Unauthorized"
MultipleCalls == "next() called multiple times"

\* The shapes of handler body:
\*   "pass"   pre; await next(); post          (loggingMiddleware, authMiddleware with a token)
\*   "throw"  throw new Error("Unauthorized")  (authMiddleware without a token)
\*   "stop"   return, next() never called
\*   "twice"  await next(); await next(); post
\*   "detach" next(); post                     (the promise of next() is dropped)
\*   "catch"  try { await next() } catch {}; post
HandlerKinds == {"pass", "throw", "stop", "twice", "detach", "catch"}
CallsNext == {"pass", "twice", "detach", "catch"}
AwaitsNext == {"pass", "twice", "catch"}

Chains == UNION {[0..(n - 1) -> HandlerKinds] : n \in 0..MaxMiddlewares}

IdleHandler == [pc |-> "idle", starts |-> 0, calls |-> <<>>, error |-> ""]
StartedHandler(h) == [pc |-> "pre", starts |-> h.starts + 1, calls |-> <<>>, error |-> ""]

\* if (i <= index) throw new Error("next() called multiple times")
DispatchRejectsStrict(i, idx) == i < idx
DispatchRejects(i, idx) == i <= idx

\* dispatch(i) up to its await: the new index, the handlers, and the promise
\* it returns ("run": it settles as handler i's promise does).
dispatch(ms, i, idx, hs) ==
    IF DispatchRejects(i, idx)
    THEN [index |-> idx, handlers |-> hs, promise |-> MultipleCalls]
    ELSE IF i >= Cardinality(DOMAIN ms)
    THEN [index |-> i, handlers |-> hs, promise |-> "resolved"]
    ELSE [index |-> i,
          handlers |-> [hs EXCEPT ![i] = StartedHandler(@)],
          promise |-> "run"]

\* The promise an async handler returned.
PromiseSwallowed(h) ==
    IF h.pc \in {"done", "failed"} THEN "resolved" ELSE "pending"
PromiseOf(h) ==
    CASE h.pc = "done" -> "resolved"
      [] h.pc = "failed" -> h.error
      [] OTHER -> "pending"

\* The promise of handler i's latest next().
NextPromise(i) ==
    LET c == handlers[i].calls[Len(handlers[i].calls)]
    IN  IF c = "run" THEN PromiseOf(handlers[i + 1]) ELSE c

\* await p continues once p is settled
AwaitReadyEarly(p) == TRUE
AwaitReady(p) == p # "pending"

\* const run = composeMiddleware(middlewares); run(ctx)  up to await dispatch(0)
MwInvoke(ms) ==
    /\ composed = "none"
    /\ LET d == dispatch(ms, 0, -1, [i \in DOMAIN ms |-> IdleHandler])
       IN  /\ middlewares' = ms
           /\ index' = d.index
           /\ handlers' = d.handlers
           /\ composed' = IF d.promise = "run" THEN "pending" ELSE d.promise
    /\ UNCHANGED <<exceptMw>>

\* handler i calls next(): () => dispatch(i + 1)
CallNext(i) ==
    /\ middlewares[i] \in CallsNext
    /\ \/ handlers[i].pc = "pre"
       \/ handlers[i].pc = "again"
    /\ LET d == dispatch(middlewares, i + 1, index, handlers)
       IN  /\ index' = d.index
           /\ handlers' = [d.handlers EXCEPT
                  ![i].calls = Append(@, d.promise),
                  ![i].pc = IF middlewares[i] = "detach" THEN "post" ELSE "await"]
    /\ UNCHANGED <<middlewares, composed, exceptMw>>

\* handler i continues after await next()
ResumeAfterNext(i) ==
    /\ handlers[i].pc = "await"
    /\ AwaitReady(NextPromise(i))
    /\ LET p == NextPromise(i)
           rejected == p \in {Unauthorized, MultipleCalls}
       IN  handlers' = [handlers EXCEPT ![i] =
               IF rejected /\ middlewares[i] # "catch"
               THEN [@ EXCEPT !.pc = "failed", !.error = p]
               ELSE IF middlewares[i] = "twice" /\ Len(@.calls) = 1
               THEN [@ EXCEPT !.pc = "again"]
               ELSE [@ EXCEPT !.pc = "post"]]
    /\ UNCHANGED <<middlewares, index, composed, exceptMw>>

\* handler i returns: after its post code, or at once when it never calls next()
HandlerReturn(i) ==
    /\ \/ handlers[i].pc = "post"
       \/ handlers[i].pc = "pre" /\ middlewares[i] = "stop"
    /\ handlers' = [handlers EXCEPT ![i].pc = "done"]
    /\ UNCHANGED <<middlewares, index, composed, exceptMw>>

\* throw new Error("Unauthorized") before next()
HandlerThrow(i) ==
    /\ handlers[i].pc = "pre"
    /\ middlewares[i] = "throw"
    /\ handlers' = [handlers EXCEPT ![i].pc = "failed", ![i].error = Unauthorized]
    /\ UNCHANGED <<middlewares, index, composed, exceptMw>>

\* await dispatch(0) of the composed function
ComposedSettle ==
    /\ composed = "pending"
    /\ PromiseOf(handlers[0]) # "pending"
    /\ composed' = PromiseOf(handlers[0])
    /\ UNCHANGED <<middlewares, index, handlers, exceptMw>>

NextMw ==
    \/ \E ms \in Chains : MwInvoke(ms)
    \/ \E i \in DOMAIN middlewares : CallNext(i)
    \/ \E i \in DOMAIN middlewares : ResumeAfterNext(i)
    \/ \E i \in DOMAIN middlewares : HandlerReturn(i)
    \/ \E i \in DOMAIN middlewares : HandlerThrow(i)
    \/ ComposedSettle

\* ------------------------ docs/tutorial/07-CLI-Tool.md: withCache, clearCache
\* and docs/framework-example/02-configuration.md: getExpensiveData, updateData
\*
\* Times are Date.now() in milliseconds. The database holds a version number
\* of the data; computeExpensiveData() reads it at some moment while fn runs.

\* withCache calls in one run
MaxCacheCalls == 2
\* how often the clock advances (by half a second)
MaxCacheTicks == 3
\* updateData calls in one run
MaxUpdates == 1

CacheSlots == 1..MaxCacheCalls

Num(n) == [kind |-> "number", value |-> n]
Str(x) == [kind |-> "string", value |-> x]
\* what a || b takes for falsy: undefined, null, 0, ""
Falsy(v) ==
    \/ v.kind = "undefined"
    \/ v.kind = "null"
    \/ v.kind = "number" /\ v.value = 0
    \/ v.kind = "string" /\ v.value = ""

\* fn.toString() of the one function cached here
FnSource == "async () => { const data = await computeExpensiveData(); return data; }"

\* options.key and options.ttl as passed
KeyOptions == {JsUndefined, Str("expensive-data")}
TtlOptions == {JsUndefined, Num(0), Num(1), Num(300)}
CacheKeys == {"expensive-data", FnSource}

\* const key = options.key || fn.toString()
KeyOf(opt) == IF Falsy(opt) THEN FnSource ELSE opt.value
\* const ttl = (options.ttl || 60) * 1000
TtlMs(opt) == (IF Falsy(opt) THEN 60 ELSE opt.value) * 1000

NoEntry == [kind |-> "undefined"]
\* cached && cached.expires > Date.now()
CacheHit(cached) == cached.kind # "undefined" /\ cached.expires > dateNow

\* clearCache(key?)
clearCache(key) ==
    IF ~Falsy(key)
    THEN [cache EXCEPT ![key.value] = NoEntry]
    ELSE [k \in CacheKeys |-> NoEntry]

\* The seconds an entry is to live as its options state them (none given: 60),
\* and whether an entry is younger than that.
StatedTtl(opt) == IF opt.kind = "undefined" THEN 60 ELSE opt.value
Fresh(cached) ==
    cached.kind # "undefined" /\ dateNow - cached.stored < StatedTtl(cached.ttl) * 1000

IdleCall ==
    [pc |-> "idle", key |-> "", ttl |-> JsUndefined, data |-> -1, hit |-> FALSE,
     fresh |-> FALSE, cleared |-> 0]

\* Date.now() advances
CacheTick ==
    /\ dateNow < MaxCacheTicks * 500
    /\ dateNow' = dateNow + 500
    /\ UNCHANGED <<cache, database, updatePc, cleared, cacheCalls, exceptCache>>

\* withCache(fn, { key, ttl }) up to its return; on a miss fn() is started.
\* fresh and cleared record what held when the call was made.
WithCache(c, keyOpt, ttlOpt) ==
    /\ cacheCalls[c].pc = "idle"
    /\ c > 1 => cacheCalls[c - 1].pc # "idle"
    /\ LET key == KeyOf(keyOpt)
           cached == cache[key]
       IN  cacheCalls' = [cacheCalls EXCEPT ![c] =
               [pc |-> IF CacheHit(cached) THEN "done" ELSE "running",
                key |-> key,
                ttl |-> ttlOpt,
                data |-> IF CacheHit(cached) THEN cached.data ELSE -1,
                hit |-> CacheHit(cached),
                fresh |-> Fresh(cached),
                cleared |-> cleared]]
    /\ UNCHANGED <<cache, dateNow, database, updatePc, cleared, exceptCache>>

\* const data = await computeExpensiveData()
FnRead(c) ==
    /\ cacheCalls[c].pc = "running"
    /\ cacheCalls' = [cacheCalls EXCEPT ![c].pc = "computed", ![c].data = database]
    /\ UNCHANGED <<cache, dateNow, database, updatePc, cleared, exceptCache>>

\* fn().then((data) => { cache.set(key, { data, expires: Date.now() + ttl }); return data; })
FnResolve(c) ==
    /\ cacheCalls[c].pc = "computed"
    /\ cache' = [cache EXCEPT ![cacheCalls[c].key] =
           [kind |-> "object", data |-> cacheCalls[c].data,
            expires |-> dateNow + TtlMs(cacheCalls[c].ttl),
            stored |-> dateNow, ttl |-> cacheCalls[c].ttl]]
    /\ cacheCalls' = [cacheCalls EXCEPT ![c].pc = "done"]
    /\ UNCHANGED <<dateNow, database, updatePc, cleared, exceptCache>>

\* updateData: await database.data.update(newData)
UpdateWrite ==
    /\ updatePc = "idle"
    /\ database < MaxUpdates
    /\ database' = database + 1
    /\ updatePc' = "written"
    /\ UNCHANGED <<cache, dateNow, cleared, cacheCalls, exceptCache>>

\* updateData: clearCache("expensive-data"); return { success: true }
UpdateClear ==
    /\ updatePc = "written"
    /\ cache' = clearCache(Str("expensive-data"))
    /\ cleared' = database
    /\ updatePc' = "idle"
    /\ UNCHANGED <<dateNow, database, cacheCalls, exceptCache>>

NextCache ==
    \/ CacheTick
    \/ \E c \in CacheSlots, k \in KeyOptions, t \in TtlOptions : WithCache(c, k, t)
    \/ \E c \in CacheSlots : FnRead(c)
    \/ \E c \in CacheSlots : FnResolve(c)
    \/ UpdateWrite
    \/ UpdateClear

\* ------------------------- docs/tutorial/07-CLI-Tool.md: createRateLimiter
\*
\* `requests` is one module-level map, shared by every limiter made by
\* createRateLimiter. A handler runs without interruption up to await next().

\* limiters created by the application
MaxLimiters == 2
\* requests passing through the limiters in one run
MaxRateRequests == 4
\* how often the clock advances (by half a second)
MaxRateTicks == 2

\* headers.get("x-forwarded-for"): null when the header is absent
NoHeader == [kind |-> "null"]
ForwardedFor == {NoHeader, Str(""), Str("10.0.0.1")}
RateKeys == {"unknown", "10.0.0.1"}

\* the RateLimitOptions used
LimiterOptions == {[windowMs |-> 1500, max |-> 2], [windowMs |-> 500, max |-> 1]}

TooMany == "Too many requests"

\* const ip = ctx.request.headers.get("x-forwarded-for") || "unknown"
IpOf(header) == IF Falsy(header) THEN "unknown" ELSE header.value

\* userRequests.filter((time) => now - time < options.windowMs)
RecentRequests(userRequests, now, windowMs) ==
    SelectSeq(userRequests, LAMBDA time : now - time < windowMs)

\* createRateLimiter(options), while the application is set up
CreateRateLimiter(options) ==
    /\ Len(limiters) < MaxLimiters
    /\ rateLog = <<>>
    /\ limiters' = Append(limiters, options)
    /\ UNCHANGED <<requests, rateNow, rateLog, exceptRate>>

\* Date.now() advances
RateTick ==
    /\ limiters # <<>>
    /\ rateNow < MaxRateTicks * 500
    /\ rateNow' = rateNow + 500
    /\ UNCHANGED <<limiters, requests, rateLog, exceptRate>>

\* the handler of limiter l for a request with that header, up to await next()
RateLimit(l, header) ==
    /\ Len(rateLog) < MaxRateRequests
    /\ LET ip == IpOf(header)
           now == rateNow
           recentRequests == RecentRequests(requests[ip], now, limiters[l].windowMs)
       IN  IF Len(recentRequests) >= limiters[l].max
           THEN /\ rateLog' = Append(rateLog,
                        [limiter |-> l, header |-> header, at |-> now, outcome |-> TooMany])
                /\ UNCHANGED requests
           ELSE /\ requests' = [requests EXCEPT ![ip] = Append(recentRequests, now)]
                /\ rateLog' = Append(rateLog,
                        [limiter |-> l, header |-> header, at |-> now, outcome |-> "next"])
    /\ UNCHANGED <<limiters, rateNow, exceptRate>>

NextRate ==
    \/ \E o \in LimiterOptions : CreateRateLimiter(o)
    \/ RateTick
    \/ \E l \in DOMAIN limiters, h \in ForwardedFor : RateLimit(l, h)

\* ------------------------- docs/tutorial/06-Server-Functions.md: useServerFn
\*
\* One mounted component using the hook. loading, data and error are the
\* hook's three state cells; what the hook returns is their value at the
\* next render.

\* execute calls in one run
MaxExecutes == 3

ExecuteSlots == 1..MaxExecutes
NullValue == [kind |-> "null"]
\* what the server function's promise may settle with for call c
ResultOf(c) == [kind |-> "result", of |-> c]
ErrorOf(c) == [kind |-> "error", of |-> c]

InFlight == {c \in ExecuteSlots : executes[c] = "inflight"}

\* execute(...args) up to await fn(...args): setLoading(true); setError(null)
Execute(c) ==
    /\ executes[c] = "idle"
    /\ c > 1 => executes[c - 1] # "idle"
    /\ executes' = [executes EXCEPT ![c] = "inflight"]
    /\ loading' = TRUE
    /\ hookError' = NullValue
    /\ UNCHANGED <<hookData, exceptHook>>

\* fn(...args) resolved: setData(result); finally setLoading(false)
ExecuteResolved(c) ==
    /\ executes[c] = "inflight"
    /\ executes' = [executes EXCEPT ![c] = "resolved"]
    /\ hookData' = ResultOf(c)
    /\ loading' = FALSE
    /\ UNCHANGED <<hookError, exceptHook>>

\* fn(...args) rejected: setError(error); finally setLoading(false)
ExecuteRejected(c) ==
    /\ executes[c] = "inflight"
    /\ executes' = [executes EXCEPT ![c] = "rejected"]
    /\ hookError' = ErrorOf(c)
    /\ loading' = FALSE
    /\ UNCHANGED <<hookData, exceptHook>>

NextHook ==
    \/ \E c \in ExecuteSlots : Execute(c)
    \/ \E c \in ExecuteSlots : ExecuteResolved(c)
    \/ \E c \in ExecuteSlots : ExecuteRejected(c)

\* -------- docs/tutorial/06-Server-Functions.md: createServerFn and the handler
\*
\* The module that calls createServerFn is evaluated in the browser bundle
\* and in the server; each process has its own functionCounter. The handler's
\* map serverFunctions lives in the server and is filled by
\* registerServerFunction only.

\* createServerFn calls per process
MaxFunctions == 2
\* calls of client functions in one run
MaxRpcCalls == 1

Procs == {"client", "server"}
RpcSlots == 1..MaxRpcCalls

\* The functions of the application (app/server/users.ts) and the options
\* their createServerFn call passes.
Impls == {"getUsers", "getUserById"}
OptionsOf(impl) ==
    IF impl = "getUsers" THEN [method |-> Str("GET")] ELSE [method |-> JsUndefined]

\* the arguments a call passes
RpcArgs == {Num(1), JsUndefined}

\* what fn returns for an argument
Apply(impl, a) == [kind |-> "object", by |-> impl, arg |-> a]

\* JSON.stringify({ args }) read back by readBody: undefined in an array is null
JsonArg(a) == IF a.kind = "undefined" THEN NullValue ELSE a

\* const functionId = `fn_${++functionCounter}`
FunctionIdFixed(counter) == "fn_" \o ToString(0 * counter + 1)
FunctionId(counter) == "fn_" \o ToString(counter + 1)

NotFound(id) == "Server function not found: " \o id
NoRpc ==
    [pc |-> "idle", fn |-> "", impl |-> "", arg |-> JsUndefined, executed |-> "",
     execArg |-> JsUndefined, response |-> NullValue, outcome |-> NullValue]

\* createServerFn(fn, options) in process p
CreateServerFn(p, impl) ==
    /\ Len(serverFns[p]) < MaxFunctions
    /\ \A c \in RpcSlots : rpc[c].pc = "idle"
    /\ functionCounter' = [functionCounter EXCEPT ![p] = @ + 1]
    /\ serverFns' = [serverFns EXCEPT ![p] = Append(@,
           [id |-> FunctionId(functionCounter[p]), impl |-> impl,
            method |-> OptionsOf(impl).method])]
    /\ UNCHANGED <<serverFunctions, rpc, exceptFn>>

\* registerServerFunction(fn) in the server: serverFunctions.set(fn.$id, fn.$serverImpl)
RegisterServerFunction(k) ==
    /\ k \in DOMAIN serverFns["server"]
    /\ serverFunctions' =
           (serverFns["server"][k].id :> serverFns["server"][k].impl) @@ serverFunctions
    /\ UNCHANGED <<functionCounter, serverFns, rpc, exceptFn>>

\* clientFn(...args) up to await fetch(...). fetch throws a TypeError for a
\* GET request with a body.
ClientCall(c, k, a) ==
    /\ rpc[c].pc = "idle"
    /\ c > 1 => rpc[c - 1].pc # "idle"
    /\ k \in DOMAIN serverFns["client"]
    /\ LET f == serverFns["client"][k]
           method == IF Falsy(f.method) THEN "POST" ELSE f.method.value
       IN  rpc' = [rpc EXCEPT ![c] =
               IF method = "GET"
               THEN [NoRpc EXCEPT !.pc = "done", !.fn = f.id, !.impl = f.impl, !.arg = a,
                        !.outcome = [kind |-> "error",
                            message |-> "Request with GET/HEAD method cannot have body"]]
               ELSE [NoRpc EXCEPT !.pc = "sent", !.fn = f.id, !.impl = f.impl, !.arg = a]]
    /\ UNCHANGED <<functionCounter, serverFns, serverFunctions, exceptFn>>

\* serverFunctionHandler for the request of call c
ServerFunctionHandler(c) ==
    /\ rpc[c].pc = "sent"
    /\ LET functionId == rpc[c].fn
       IN  rpc' = [rpc EXCEPT ![c] =
               IF functionId \notin DOMAIN serverFunctions
               THEN [@ EXCEPT !.pc = "answered",
                        !.response = [kind |-> "error", message |-> NotFound(functionId)]]
               ELSE [@ EXCEPT !.pc = "answered",
                        !.executed = serverFunctions[functionId],
                        !.execArg = JsonArg(rpc[c].arg),
                        !.response = Apply(serverFunctions[functionId], JsonArg(rpc[c].arg))]]
    /\ UNCHANGED <<functionCounter, serverFns, serverFunctions, exceptFn>>

\* clientFn after the fetch: throw when !response.ok, else return response.json()
ClientReceive(c) ==
    /\ rpc[c].pc = "answered"
    /\ rpc' = [rpc EXCEPT ![c].pc = "done",
           ![c].outcome =
               IF rpc[c].response.kind = "error"
               THEN [kind |-> "error", message |-> "Server function failed"]
               ELSE rpc[c].response]
    /\ UNCHANGED <<functionCounter, serverFns, serverFunctions, exceptFn>>

NextFn ==
    \/ \E p \in Procs, impl \in Impls : CreateServerFn(p, impl)
    \/ \E k \in 1..MaxFunctions : RegisterServerFunction(k)
    \/ \E c \in RpcSlots, k \in 1..MaxFunctions, a \in RpcArgs : ClientCall(c, k, a)
    \/ \E c \in RpcSlots : ServerFunctionHandler(c)
    \/ \E c \in RpcSlots : ClientReceive(c)

\* ----------------- docs/framework-example/examples/todo-app.md: the todo store
\*
\* createTodo, toggleTodo and deleteTodo are made by createServerFn: a call
\* goes through the client function and serverFunctionHandler (modelled
\* above) to the function given to createServerFn. A text is a sequence of
\* characters. createdAt is left out.

\* todos created in one run
MaxCreates == 3

Whitespace == {" ", "\t"}
Texts == {<<>>, <<" ">>, <<" ", "\t">>, <<"a">>, <<" ", "a", " ">>}
TodoFns == {"createTodo", "toggleTodo", "deleteTodo"}
TodoIds == 1..(MaxCreates + 1)

\* String.prototype.trim
RECURSIVE TrimStart(_)
TrimStart(s) ==
    IF s # <<>> /\ Head(s) \in Whitespace THEN TrimStart(Tail(s)) ELSE s
RECURSIVE TrimEnd(_)
TrimEnd(s) ==
    IF s # <<>> /\ s[Len(s)] \in Whitespace THEN TrimEnd(SubSeq(s, 1, Len(s) - 1)) ELSE s
Trim(s) == TrimEnd(TrimStart(s))

EmptyText == "Todo text cannot be empty"
\* what the client function throws when the response is not ok
\* (`Server function failed: ${response.statusText}`)
CallFailed == [kind |-> "error", message |-> "Server function failed"]

\* id: nextId++
NewIdByLength(list, next) == Len(list) + 1
NewId(list, next) == next

\* db.todos.create(text): the todo made
NewTodo(text) == [id |-> NewId(todos, nextId), text |-> text, completed |-> FALSE]

\* db.todos.toggle(id): todos.find((t) => t.id === id), then flip it
FindIndex(id) ==
    LET found == {i \in DOMAIN todos : todos[i].id = id}
    IN  IF found = {} THEN 0 ELSE CHOOSE i \in found : \A j \in found : i <= j
Toggled(id) ==
    IF FindIndex(id) = 0 THEN todos
    ELSE [todos EXCEPT ![FindIndex(id)].completed = ~@]

\* db.todos.delete(id): todos.filter((t) => t.id !== id)
Deleted(id) == SelectSeq(todos, LAMBDA t : t.id # id)

\* registerServerFunction(fn) for one of the todo functions
RegisterTodoFn(name) ==
    /\ name \notin todoRegistered
    /\ todoRegistered' = todoRegistered \cup {name}
    /\ UNCHANGED <<todos, nextId, assigned, todoLast, exceptTodo>>

\* createTodo(text) called in the browser, to its end
CallCreateTodo(text) ==
    /\ nextId <= MaxCreates
    /\ IF "createTodo" \notin todoRegistered
       THEN /\ todoLast' = [fn |-> "createTodo", outcome |-> CallFailed]
            /\ UNCHANGED <<todos, nextId, assigned>>
       ELSE IF Trim(text) = <<>>
       THEN /\ todoLast' = [fn |-> "createTodo", outcome |-> CallFailed]
            /\ UNCHANGED <<todos, nextId, assigned>>
       ELSE /\ todos' = Append(todos, NewTodo(text))
            /\ nextId' = nextId + 1
            /\ assigned' = Append(assigned, NewTodo(text).id)
            /\ todoLast' = [fn |-> "createTodo",
                   outcome |-> [kind |-> "todo", value |-> NewTodo(text)]]
    /\ UNCHANGED <<todoRegistered, exceptTodo>>

\* toggleTodo(id) called in the browser, to its end
CallToggleTodo(id) ==
    /\ IF "toggleTodo" \notin todoRegistered
       THEN /\ todoLast' = [fn |-> "toggleTodo", outcome |-> CallFailed]
            /\ UNCHANGED todos
       ELSE /\ todos' = Toggled(id)
            /\ todoLast' = [fn |-> "toggleTodo",
                   outcome |-> IF FindIndex(id) = 0 THEN JsUndefined
                               ELSE [kind |-> "todo", value |-> Toggled(id)[FindIndex(id)]]]
    /\ UNCHANGED <<nextId, assigned, todoRegistered, exceptTodo>>

\* deleteTodo(id) called in the browser, to its end
CallDeleteTodo(id) ==
    /\ IF "deleteTodo" \notin todoRegistered
       THEN /\ todoLast' = [fn |-> "deleteTodo", outcome |-> CallFailed]
            /\ UNCHANGED todos
       ELSE /\ todos' = Deleted(id)
            /\ todoLast' = [fn |-> "deleteTodo", outcome |-> [kind |-> "success"]]
    /\ UNCHANGED <<nextId, assigned, todoRegistered, exceptTodo>>

NextTodo ==
    \/ \E name \in TodoFns : RegisterTodoFn(name)
    \/ \E text \in Texts : CallCreateTodo(text)
    \/ \E id \in TodoIds : CallToggleTodo(id)
    \/ \E id \in TodoIds : CallDeleteTodo(id)

\* ------------------------------------- docs/TL-DR.md: the SSR render(url)
\*
\* loaderData is one module-level Map of the server. A render call awaits
\* its route's loader, so calls of concurrent requests interleave there.

\* render calls in one run
MaxRenders == 2

RenderSlots == 1..MaxRenders
SsrUrls == {"/about", "/users", "/users/1"}
\* matchRoutes(routes, url): the path of the matched route, and whether the
\* route has a loader
RoutePath(url) == IF url = "/users/1" THEN "/users/:id" ELSE url
HasLoader(path) == path \in {"/users", "/users/:id"}

\* what the loader returns in call r
Loaded(r, url) == [from |-> url, by |-> r]

\* Object.fromEntries(loaderData), serialized
Serialized(map) == [k \in DOMAIN map |-> map[k]]

NoRender == [pc |-> "idle", url |-> "", data |-> <<>>]

\* render(url) up to the await of the loader, or to renderToString when the
\* matched route has no loader
RenderStart(r, url) ==
    /\ renders[r].pc = "idle"
    /\ r > 1 => renders[r - 1].pc # "idle"
    /\ renders' = [renders EXCEPT ![r] =
           [pc |-> IF HasLoader(RoutePath(url)) THEN "loading" ELSE "render",
            url |-> url, data |-> <<>>]]
    /\ UNCHANGED <<loaderData, exceptSsr>>

\* the loader resolved: loaderData.set(match.route.path, data)
LoaderResolved(r) ==
    /\ renders[r].pc = "loading"
    /\ loaderData' = (RoutePath(renders[r].url) :> Loaded(r, renders[r].url)) @@ loaderData
    /\ renders' = [renders EXCEPT ![r].pc = "render"]
    /\ UNCHANGED exceptSsr

\* renderToString, JSON.stringify(Object.fromEntries(loaderData)), return
RenderReturn(r) ==
    /\ renders[r].pc = "render"
    /\ renders' = [renders EXCEPT ![r].pc = "done", ![r].data = Serialized(loaderData)]
    /\ UNCHANGED <<loaderData, exceptSsr>>

NextSsr ==
    \/ \E r \in RenderSlots, url \in SsrUrls : RenderStart(r, url)
    \/ \E r \in RenderSlots : LoaderResolved(r)
    \/ \E r \in RenderSlots : RenderReturn(r)

\* ------------------------------------- the request logger (getTime, fetch)
\*
\* The server starts at some time of day; its clock then advances minute by
\* minute. A string is a sequence of characters.

\* minutes the clock advances in one run
MaxLogTicks == 2

Hours == 0..23
Minutes == 0..59

Digit(d) ==
    CASE d = 0 -> "0" [] d = 1 -> "1" [] d = 2 -> "2" [] d = 3 -> "3" [] d = 4 -> "4"
      [] d = 5 -> "5" [] d = 6 -> "6" [] d = 7 -> "7" [] d = 8 -> "8" [] d = 9 -> "9"

\* Number.prototype.toString of a natural number
RECURSIVE NumberToString(_)
NumberToString(n) ==
    IF n < 10 THEN <<Digit(n)>> ELSE NumberToString(n \div 10) \o <<Digit(n % 10)>>

\* String.prototype.padStart(targetLength, fill) with a one-character fill
RECURSIVE PadStart(_, _, _)
PadStart(s, targetLength, fill) ==
    IF Len(s) >= targetLength THEN s ELSE PadStart(<<fill>> \o s, targetLength, fill)

\* const formattedHour = hours % 12 || 12
FormattedHourMod(hours) == hours % 12
FormattedHour(hours) == IF hours % 12 = 0 THEN 12 ELSE hours % 12

\* getTime() when new Date() is at hours:minutes
getTime(hours, minutes) ==
    LET mins == PadStart(NumberToString(minutes), 2, "0")
        suffix == IF hours >= 12 THEN <<"P", "M">> ELSE <<"A", "M">>
    IN  NumberToString(FormattedHour(hours)) \o <<":">> \o mins \o suffix

NoClock == [kind |-> "none"]

\* the server process starts
LoggerStart(h, m) ==
    /\ logNow = NoClock
    /\ logNow' = [kind |-> "time", hours |-> h, minutes |-> m, ticks |-> 0]
    /\ UNCHANGED <<logged, exceptLog>>

\* a minute passes
LogTick ==
    /\ logNow # NoClock
    /\ logNow.ticks < MaxLogTicks
    /\ logNow' =
           IF logNow.minutes < 59
           THEN [logNow EXCEPT !.minutes = @ + 1, !.ticks = @ + 1]
           ELSE [logNow EXCEPT !.minutes = 0, !.hours = (@ + 1) % 24, !.ticks = @ + 1]
    /\ UNCHANGED <<logged, exceptLog>>

\* fetch(req): const time = getTime(); console.log(`[${time}] ...`)
LogRequest ==
    /\ logNow # NoClock
    /\ logged' = [kind |-> "line", hours |-> logNow.hours, minutes |-> logNow.minutes,
                  time |-> getTime(logNow.hours, logNow.minutes)]
    /\ UNCHANGED <<logNow, exceptLog>>

NextLog ==
    \/ \E h \in Hours, m \in Minutes : LoggerStart(h, m)
    \/ LogTick
    \/ LogRequest

Init ==
    /\ userReqs = [r \in UserSlots |-> [pc |-> "idle", param |-> Undefined, response |-> NoResponse]]
    /\ helloReqs = [r \in HelloSlots |->
           [pc |-> "idle", method |-> "GET", ctxUser |-> JsUndefined,
            ctxAfter |-> JsUndefined, outcome |-> NoOutcome]]
    /\ hrtime = 0
    /\ procStart = hrtime
    /\ wallClock = 0
    /\ healthLog = <<>>
    /\ app \in Apps
    /\ tabs = [t \in Tabs |->
           [path |-> <<>>, component |-> "Home", params |-> <<>>,
            hooks |-> <<0>>, shown |-> <<0>>, clicks |-> 0, from |-> ""]]
    /\ scanFiles = <<>>
    /\ routeTable = <<>>
    /\ matchRes = NoMatch
    /\ middlewares = <<>>
    /\ index = -1
    /\ handlers = <<>>
    /\ composed = "none"
    /\ cache = [k \in CacheKeys |-> NoEntry]
    /\ dateNow = 0
    /\ database = 0
    /\ updatePc = "idle"
    /\ cleared = 0
    /\ cacheCalls = [c \in CacheSlots |-> IdleCall]
    /\ limiters = <<>>
    /\ requests = [k \in RateKeys |-> <<>>]
    /\ rateNow = 0
    /\ rateLog = <<>>
    /\ executes = [c \in ExecuteSlots |-> "idle"]
    /\ loading = FALSE
    /\ hookData = NullValue
    /\ hookError = NullValue
    /\ functionCounter = [p \in Procs |-> 0]
    /\ serverFns = [p \in Procs |-> <<>>]
    /\ serverFunctions = <<>>
    /\ rpc = [c \in RpcSlots |-> NoRpc]
    /\ todos = <<>>
    /\ nextId = 1
    /\ assigned = <<>>
    /\ todoRegistered = {}
    /\ todoLast = [fn |-> "", outcome |-> NullValue]
    /\ loaderData = <<>>
    /\ renders = [r \in RenderSlots |-> NoRender]
    /\ logNow = NoClock
    /\ logged = [kind |-> "none"]

Next == NextUsers \/ NextHello \/ NextHealth \/ NextPages \/ NextScan \/ NextMw \/ NextCache \/ NextRate \/ NextHook \/ NextFn \/ NextTodo \/ NextSsr \/ NextLog

Spec == Init /\ [][Next]_vars
SpecUsers == Init /\ [][NextUsers]_vars
SpecHello == Init /\ [][NextHello]_vars
SpecHealth == Init /\ [][NextHealth]_vars
SpecPages == Init /\ [][NextPages]_vars
SpecScan == Init /\ [][NextScan]_vars
SpecMw == Init /\ [][NextMw]_vars
SpecCache == Init /\ [][NextCache]_vars
SpecRate == Init /\ [][NextRate]_vars
SpecHook == Init /\ [][NextHook]_vars
SpecFn == Init /\ [][NextFn]_vars
SpecTodo == Init /\ [][NextTodo]_vars
SpecSsr == Init /\ [][NextSsr]_vars
SpecLog == Init /\ [][NextLog]_vars


\* ------------------------------------------------------------------ claims

\* Number(s): the numeric value of the id strings that spell a number.
ToNumber(s) ==
    CASE s = "1" -> 1
      [] s = "2" -> 2
      [] s = "3" -> 3
      [] s = "01" -> 1
      [] s = "1.0" -> 1

DoneUsers == {r \in UserSlots : userReqs[r].pc = "done"}
DoneHello == {r \in HelloSlots : helloReqs[r].pc = "done"}

\* C1: a request whose id is "1" or "2" is answered { user } with the
\* literal record of that key (1: John Doe, john@example.com; 2: Jane Smith,
\* jane@example.com), and user.id is the number the id spells.
C1_KnownIdReturnsUser ==
    \A r \in DoneUsers :
        LET p == userReqs[r].param
            res == userReqs[r].response
        IN  p \in {"1", "2"} =>
                /\ DOMAIN res = {"user"}
                /\ res.user.id = ToNumber(p)
                /\ p = "1" => res.user.name = "John Doe" /\ res.user.email = "john@example.com"
                /\ p = "2" => res.user.name = "Jane Smith" /\ res.user.email = "jane@example.com"

C1_Witness ==
    \E r \in DoneUsers :
        /\ userReqs[r].param = "2"
        /\ userReqs[r].response = [user |-> Users["2"]]

\* C2: a request whose id is anything but "1" and "2", an absent id
\* included, is answered { statusCode: 404, statusMessage: "User not found" }
\* and gets no user field.
C2_OtherIdNotFound ==
    \A r \in DoneUsers :
        userReqs[r].param \notin {"1", "2"} =>
            /\ userReqs[r].response = NotFoundResponse
            /\ "user" \notin DOMAIN userReqs[r].response

\* C3: every call ends in one of two outcomes, { user } or the 404 object,
\* and which one is decided by whether the id is a key of the mock map.
C3_OutcomeByKeyPresence ==
    \A r \in DoneUsers :
        LET res == userReqs[r].response
            present == ToPropertyKey(userReqs[r].param) \in {"1", "2"}
        IN  /\ DOMAIN res = {"user"} \/ res = NotFoundResponse
            /\ present <=> DOMAIN res = {"user"}

\* C4: any two requests to /api/hello complete and get the same JSON body,
\* whatever the request and whatever event.context holds.
C4_HelloIsStatic ==
    \A r1, r2 \in DoneHello :
        /\ helloReqs[r1].outcome.kind = "return"
        /\ helloReqs[r1].outcome = helloReqs[r2].outcome

\* C5: within one process lifetime every health response has status "ok"
\* and an uptime >= 0, and a later response's uptime is never smaller than
\* an earlier one's.
C5_UptimeMonotone ==
    /\ \A i \in 1..Len(healthLog) :
           healthLog[i].status = "ok" /\ healthLog[i].uptime >= 0
    /\ \A i, j \in 1..Len(healthLog) :
           i < j => healthLog[i].uptime <= healthLog[j].uptime

C5_Witness ==
    /\ Len(healthLog) >= 2
    /\ healthLog[1].uptime < healthLog[2].uptime
    /\ healthLog[1].timestamp > healthLog[2].timestamp

\* C6: a page reached from Home by one of its links is the page of that
\* link: /about About, /users Users, /users/profile UserProfile, and
\* /users/123 UserDetail with id "123"; never nothing and never the 404 page.
C6_HomeLinksRender ==
    \A t \in Tabs :
        tabs[t].from = "Home" =>
            LET p == tabs[t].path
                c == tabs[t].component
            IN  \/ p = <<"about">> /\ c = "About"
                \/ p = <<"users">> /\ c = "Users"
                \/ p = <<"users", "profile">> /\ c = "UserProfile"
                \/ /\ p = <<"users", "123">>
                   /\ c = "UserDetail"
                   /\ useParams(tabs[t].params, "id") = "123"

C6_Witness ==
    /\ tabs["a"].from = "Home" /\ tabs["a"].path = <<"users", "123">>
    /\ tabs["b"].from = "Home" /\ tabs["b"].path = <<"users", "profile">>

C8_AnsweredAsIfAlone ==
    \A r \in DoneUsers : userReqs[r].response = UsersHandler(userReqs[r].param)

C8_Witness ==
    /\ DoneUsers = UserSlots
    /\ userReqs[1].param = "2" /\ DOMAIN userReqs[1].response = {"user"}
    /\ userReqs[2].param = "3" /\ userReqs[2].response = NotFoundResponse

\* The routes of an App that are pages, not the catch-all.
PageRoutes(a) == {i \in 1..Len(RoutesOf(a)) : ~IsSplat(RoutesOf(a)[i].pattern)}

RoutesOfFile(file) == {routeTable[i] : i \in {k \in 1..Len(routeTable) : routeTable[k].filePath = file}}

C12_CatchAllIsWildcard ==
    /\ \A r \in RoutesOfFile(<<"docs", "/", "[", ".", ".", ".", "slug", "]", ".", "tsx">>) :
           r.path = <<"/", "docs", "/", "*">>
    /\ \A r \in RoutesOfFile(<<"[", ".", ".", ".", "slug", "]", "/", "index", ".", "tsx">>) :
           r.path = <<"/", "*">>
    /\ \A i \in 1..Len(routeTable) :
           \A k \in 1..(Len(routeTable[i].path) - 1) :
               ~(routeTable[i].path[k] = ":" /\ routeTable[i].path[k + 1] = ".")

\* C14: with users/profile.tsx and users/[id].tsx both scanned, in either
\* order, matchRoute answers /users/profile with the static route.
C14_StaticRouteFirst ==
    (/\ matchRes.path = <<"/", "users", "/", "profile">>
     /\ RoutesOfFile(<<"users", "/", "profile", ".", "tsx">>) # {}
     /\ RoutesOfFile(<<"users", "/", "[", "id", "]", ".", "tsx">>) # {})
        => matchRes.route.path = <<"/", "users", "/", "profile">>

\* ------------------------------------------------ composeMiddleware claims

Positions == DOMAIN middlewares
Started(j) == handlers[j].starts > 0
Finished(j) == handlers[j].pc \in {"done", "failed"}
\* handler i is running the code placed after an awaited next()
AfterNext(i) == middlewares[i] \in AwaitsNext /\ handlers[i].pc \in {"again", "post"}
OnceEach == \A i \in Positions : Len(handlers[i].calls) <= 1
\* array order, each handler at most once, handler i+1 only after handler i's next()
InOrderOnce ==
    \A i \in Positions :
        /\ handlers[i].starts <= 1
        /\ (i > 0 /\ Started(i)) => handlers[i - 1].calls # <<>>
\* the composed call does not hang, and does not fail for a repeated next()
Completes ==
    /\ composed = "pending" => ENABLED NextMw
    /\ composed # MultipleCalls

\* C15 (as stated): handlers run in array order, each at most once, handler
\* i+1 only after handler i called next(); the code after handler i's awaited
\* next() runs only after all of handlers i+1..n have finished; the composed
\* call completes when every handler calls next() at most once.
C15_AfterAllDownstream ==
    /\ InOrderOnce
    /\ \A i \in Positions : AfterNext(i) =>
           \A j \in Positions : (j > i /\ Started(j)) => Finished(j)
    /\ OnceEach => Completes

\* C15 (amended): as stated, but the code after handler i's awaited next() is
\* only sure to run after handler i+1 has finished, and after a later handler
\* j when every handler from i+1 to j-1 awaits its own next().
C15_AfterAwaitedDownstream ==
    /\ InOrderOnce
    /\ \A i \in Positions : AfterNext(i) =>
           \A j \in Positions :
               (/\ j > i
                /\ Started(j)
                /\ \A k \in (i + 1)..(j - 1) : middlewares[k] \in AwaitsNext)
               => Finished(j)
    /\ OnceEach => Completes

C15_Witness ==
    /\ middlewares = (0 :> "pass" @@ 1 :> "pass" @@ 2 :> "pass")
    /\ handlers[0].pc = "post"
    /\ handlers[1].pc = "done"
    /\ handlers[2].pc = "done"

\* C16: a second next() of any middleware, the last one included, fails with
\* "next() called multiple times", and no handler is run a second time.
C16_SecondNextRejected ==
    \A i \in Positions :
        /\ \A k \in 2..Len(handlers[i].calls) : handlers[i].calls[k] = MultipleCalls
        /\ handlers[i].starts <= 1
        /\ (middlewares[i] = "twice" /\ Len(handlers[i].calls) = 2 /\ handlers[i].pc # "await")
               => (handlers[i].pc = "failed" /\ handlers[i].error = MultipleCalls)

C16_Witness ==
    \E i \in Positions :
        /\ i + 1 \in Positions
        /\ Len(handlers[i].calls) = 2
        /\ handlers[i].pc = "failed"
        /\ handlers[i + 1].pc = "done"
        /\ handlers[i + 1].starts = 1

\* a middleware that threw before next(), or returned without calling it
StoppedAt(k) == middlewares[k] \in {"throw", "stop"} /\ Finished(k)

\* C17 (as stated): after a middleware threw before next() or returned without
\* it, no later middleware runs, and when it threw the composed call rejects
\* with that error.
C17_ThrowRejectsComposed ==
    \A k \in Positions : StoppedAt(k) =>
        /\ \A j \in Positions : j > k => ~Started(j)
        /\ (middlewares[k] = "throw" /\ composed # "pending") => composed = Unauthorized

\* C17 (amended): no later middleware runs; the composed call rejects with the
\* error when every earlier middleware awaits its next() and does not catch
\* the rejection.
C17_ThrowRejectsWhenPropagated ==
    \A k \in Positions : StoppedAt(k) =>
        /\ \A j \in Positions : j > k => ~Started(j)
        /\ (/\ middlewares[k] = "throw"
            /\ composed # "pending"
            /\ \A j \in 0..(k - 1) : middlewares[j] \in {"pass", "twice"})
           => composed = Unauthorized

C17_Witness ==
    /\ middlewares = (0 :> "pass" @@ 1 :> "throw" @@ 2 :> "pass")
    /\ composed = Unauthorized
    /\ handlers[2].starts = 0

\* ------------------------------------------------------------ cache claims

\* C18: withCache invokes fn only when there is no unexpired entry for the key;
\* while an entry stored less than ttl seconds ago exists the call returns the
\* stored data without invoking fn; and an entry is never returned once ttl
\* seconds have passed since it was stored.
C18_ServedOnlyWithinTtl ==
    \A c \in CacheSlots : cacheCalls[c].pc # "idle" =>
        /\ ~cacheCalls[c].hit => ~cacheCalls[c].fresh
        /\ cacheCalls[c].fresh => cacheCalls[c].hit
        /\ cacheCalls[c].hit => cacheCalls[c].fresh

\* C19: a getExpensiveData call that starts after updateData has written and
\* cleared the cache is never served data computed before that update.
C19_NoStaleAfterClear ==
    \A c \in CacheSlots :
        (cacheCalls[c].pc = "done" /\ cacheCalls[c].key = "expensive-data")
            => cacheCalls[c].data >= cacheCalls[c].cleared

\* ----------------------------------------------------- rate limiter claims

\* the client key as stated: the header's value, "unknown" without the header
ClientKey(header) == IF header = NoHeader THEN "unknown" ELSE header.value
\* the requests of log entry i's limiter and client key that were let through
LetThrough(i) ==
    {j \in DOMAIN rateLog :
        /\ rateLog[j].limiter = rateLog[i].limiter
        /\ ClientKey(rateLog[j].header) = ClientKey(rateLog[i].header)
        /\ rateLog[j].outcome = "next"}
WindowOf(i) == limiters[rateLog[i].limiter].windowMs
MaxOf(i) == limiters[rateLog[i].limiter].max
\* those let through before request i and less than the window before it
Before(i) == {j \in LetThrough(i) : j < i /\ rateLog[i].at - rateLog[j].at < WindowOf(i)}

\* C20: per limiter and client key at most max requests reach next() within
\* a window shorter than windowMs, a further request in the window fails with
\* "Too many requests", and a request fails only for requests of its own key.
C20_PerKeySlidingWindow ==
    \A i \in DOMAIN rateLog :
        /\ rateLog[i].outcome = "next" => Cardinality(Before(i)) < MaxOf(i)
        /\ Cardinality(Before(i)) >= MaxOf(i) => rateLog[i].outcome = TooMany
        /\ rateLog[i].outcome = TooMany => Cardinality(Before(i)) >= MaxOf(i)

\* ------------------------------------------------------- useServerFn claims

\* C21: loading is true exactly while at least one execute call is in flight.
C21_LoadingIffInFlight == loading = (InFlight # {})

\* --------------------------------------------------- server function claims

\* C22: a call of the client function made from fn has the handler execute
\* that fn with the call's arguments and returns fn's result; a request for
\* an id the handler does not know fails with "Server function not found"
\* and executes nothing.
C22_CallRunsItsFunction ==
    \A c \in RpcSlots :
        /\ rpc[c].pc = "done" =>
               /\ rpc[c].executed = rpc[c].impl
               /\ rpc[c].execArg = rpc[c].arg
               /\ rpc[c].outcome = Apply(rpc[c].impl, rpc[c].arg)
        /\ (rpc[c].pc = "answered" /\ rpc[c].executed = "") =>
               rpc[c].response = [kind |-> "error", message |-> NotFound(rpc[c].fn)]

\* C27: within one process every createServerFn call yields a new $id, so no
\* two server functions are registered under one id.
C27_FunctionIdsDistinct ==
    /\ \A p \in Procs : \A i, j \in DOMAIN serverFns[p] :
           i # j => serverFns[p][i].id # serverFns[p][j].id
    /\ \A id \in DOMAIN serverFunctions :
           Cardinality({k \in DOMAIN serverFns["server"] : serverFns["server"][k].id = id}) = 1

C27_Witness ==
    /\ Len(serverFns["server"]) = 2
    /\ serverFns["server"][1].impl = serverFns["server"][2].impl
    /\ Cardinality(DOMAIN serverFunctions) = 2

\* ------------------------------------------------------------- todo claims

\* empty or only whitespace
BlankText(text) == \A i \in DOMAIN text : text[i] \in Whitespace

\* C23: createTodo with an empty or whitespace-only text fails with "Todo
\* text cannot be empty" and leaves the list and the next id unchanged; with
\* any other text it appends exactly one todo with completed = false and
\* leaves the existing todos unchanged.
C23_CreateTodoChecksText ==
    [][\A text \in Texts : CallCreateTodo(text) =>
          IF BlankText(text)
          THEN /\ todoLast'.outcome.kind = "error"
               /\ todoLast'.outcome.message = EmptyText
               /\ UNCHANGED <<todos, nextId>>
          ELSE /\ Len(todos') = Len(todos) + 1
               /\ todos'[Len(todos')].text = text
               /\ todos'[Len(todos')].completed = FALSE
               /\ \A i \in DOMAIN todos : todos'[i] = todos[i]]_vars

\* C28: no two todos of the list share an id, and an id once assigned is
\* never assigned again, also after its todo was deleted.
C28_TodoIdsNeverReused ==
    /\ \A i, j \in DOMAIN todos : i # j => todos[i].id # todos[j].id
    /\ \A i, j \in DOMAIN assigned : i # j => assigned[i] # assigned[j]

C28_Witness ==
    /\ Len(assigned) = 3
    /\ Len(todos) = 2
    /\ todos[1].completed
    /\ todos[2].id = assigned[3]

\* ------------------------------------------------------ Home and page claims

\* C24: once Home has rendered its latest state, the count it displays is the
\* number of Increase clicks handled since it was mounted.
C24_CountIsClicksHandled ==
    \A t \in Tabs :
        (tabs[t].component = "Home" /\ tabs[t].shown = tabs[t].hooks)
            => tabs[t].shown[1] = tabs[t].clicks

AuthoredPages == {"Home", "About", "Users", "UserDetail", "UserProfile"}
\* the page a link of a page leads to
LinkedPage(a, target) == Rendered[a][target].component
\* the pages from which Home is reached by following at most n links
RECURSIVE ReachHome(_, _)
ReachHome(a, n) ==
    IF n = 0 THEN {"Home"}
    ELSE ReachHome(a, n - 1) \cup
         {c \in AuthoredPages :
             \E l \in Links(a, c) : LinkedPage(a, l) \in ReachHome(a, n - 1)}
\* per App: the pages from which Home is reachable, and the pages whose
\* links all lead to authored pages (tables, evaluated once)
ReachesHome == [a \in Apps |-> ReachHome(a, Cardinality(AuthoredPages))] @@ <<>>
LinksClosed ==
    [a \in Apps |->
        {c \in AuthoredPages : \A l \in Links(a, c) : LinkedPage(a, l) \in AuthoredPages}]
    @@ <<>>

\* C25: every link of the page a tab shows leads to an authored page, never
\* to the catch-all; a page reached by a link is an authored page; and Home
\* is reachable from the page by following links.
C25_ClosedNavigation ==
    \A t \in Tabs :
        LET c == tabs[t].component
        IN  /\ tabs[t].from # "" => c \in AuthoredPages
            /\ c \in AuthoredPages => (c \in LinksClosed[app] /\ c \in ReachesHome[app])

C25_Witness ==
    /\ tabs["a"].component = "UserDetail" /\ tabs["a"].from = "Users"
    /\ tabs["b"].component = "Home" /\ tabs["b"].from = "UserProfile"

\* -------------------------------------------------------------- SSR claims

\* C26: the data a render(url) call returns holds only what that call loaded
\* for the route its url matched.
C26_OnlyOwnLoaderData ==
    \A r \in RenderSlots : renders[r].pc = "done" =>
        \A k \in DOMAIN renders[r].data :
            /\ k = RoutePath(renders[r].url)
            /\ renders[r].data[k] = Loaded(r, renders[r].url)

\* ----------------------------------------------------------- logger claims

\* the hour of the 12-hour clock, the two digits of a minute
TwelveHour(h) == IF h = 0 \/ h = 12 THEN 12 ELSE IF h > 12 THEN h - 12 ELSE h
TwoDigits(m) == <<Digit(m \div 10), Digit(m % 10)>>

\* C29: getTime gives "<h>:<mm><suffix>": h in 1..12 (12 for hours 0 and 12),
\* mm the minute in two digits, PM exactly from hour 12 on.
C29_TwelveHourClock ==
    logged.kind = "line" =>
        LET h == TwelveHour(logged.hours)
            hh == IF h >= 10 THEN <<"1", Digit(h - 10)>> ELSE <<Digit(h)>>
        IN  /\ h \in 1..12
            /\ logged.time =
                   hh \o <<":">> \o TwoDigits(logged.minutes)
                      \o (IF logged.hours >= 12 THEN <<"P", "M">> ELSE <<"A", "M">>)

C29_Witness ==
    /\ logged.kind = "line"
    /\ logged.hours = 0
    /\ logged.minutes = 5
    /\ logged.time = <<"1", "2", ":", "0", "5", "A", "M">>

====
